---- MODULE Spec2Model ----
(***************************************************************************)
(* Announcement endpoints (src/backend/routers/announcements.py): the      *)
(* announcements collection, the clock, and the five request handlers.     *)
(*                                                                         *)
(* Instants are integers (ticks on the UTC time line).  A request's        *)
(* timestamp string is a record [kind, wall, off]: what was written, not   *)
(* the instant it denotes.  A message is a record [pad, len]: pad          *)
(* whitespace characters on each side of a core of len characters that     *)
(* begins and ends with a non-whitespace character.                        *)
(***************************************************************************)
EXTENDS Integers, Sequences, FiniteSets, TLC

VARIABLES
    announcements_collection,  \* ObjectId -> document
    next_oid,                  \* ObjectIds handed out so far
    now,                       \* datetime.now(timezone.utc)
    req,                       \* the arguments of the last call (history)
    resp,                      \* what the last call returned or raised
    pending                    \* a call between its write and its re-read

vars == <<announcements_collection, next_oid, now, req, resp, pending>>

\* ------------------------------------------------------------- bounds
\* ObjectIds the store hands out over a run.
MaxIds == 2
\* The clock runs over 0..MaxTime.
MaxTime == 2

\* ---------------------------------------------------------- constants
\* len(sanitized_message) > 500
MAX_MESSAGE_LENGTH == 500

\* Python's None for an optional instant.
None == -1

\* ------------------------------------------------------ request values
NoUsername == "<None>"
teachers_collection == {"alice"}
Usernames == {NoUsername, "", "mallory", "alice"}

Msg(p, n) == [pad |-> p, len |-> n]
\* "", whitespace only, one character (bare and padded), 500 characters
\* (bare and padded), 501 characters.
Messages ==
    { Msg(0, 0), Msg(1, 0), Msg(0, 1), Msg(1, 1), Msg(0, MAX_MESSAGE_LENGTH),
      Msg(1, MAX_MESSAGE_LENGTH), Msg(0, MAX_MESSAGE_LENGTH + 1) }

TS(k, w, o) == [kind |-> k, wall |-> w, off |-> o]
NoneTS == TS("none", 0, 0)
\* "", an unparseable string, "...T01Z", "...T02" (no offset) and
\* "...T02+01:00" (the instant 1).
EmptyTS == TS("empty", 0, 0)
BadTS == TS("bad", 0, 0)
Z1 == TS("Z", 1, 0)
Naive2 == TS("naive", 2, 0)
Offset1 == TS("offset", 2, 1)

\* A path id: a 24-digit hexadecimal string naming ObjectId n, or not.
IdStr(h, n) == [hex |-> h, n |-> n]
MalformedId == IdStr(FALSE, 0)
IdStrings == {MalformedId} \cup { IdStr(TRUE, n) : n \in 1..MaxIds }

\* ------------------------------------------------------------ helpers
\* str.strip()
strip(m) == Msg(0, m.len)
\* len(str)
len(m) == 2 * m.pad + m.len

Parsed(status, detail, dt) == [status |-> status, detail |-> detail, dt |-> dt]

to_utc_datetime_keeps_wall_time(value, field_name, required) ==
    IF value.kind \in {"none", "empty"}
    THEN IF required
         THEN Parsed(400, IF field_name = "starts_at" THEN "starts_at is required"
                          ELSE "expires_at is required", None)
         ELSE Parsed(200, "", None)
    ELSE IF value.kind = "bad"
    THEN Parsed(400, IF field_name = "starts_at" THEN "Invalid starts_at format"
                     ELSE "Invalid expires_at format", None)
    ELSE Parsed(200, "", value.wall)

\* _to_utc_datetime: the UTC instant of a timestamp string, or the 400 it raises.
to_utc_datetime(value, field_name, required) ==
    IF value.kind \in {"none", "empty"}
    THEN IF required
         THEN Parsed(400, IF field_name = "starts_at" THEN "starts_at is required"
                          ELSE "expires_at is required", None)
         ELSE Parsed(200, "", None)
    ELSE IF value.kind = "bad"
    THEN Parsed(400, IF field_name = "starts_at" THEN "Invalid starts_at format"
                     ELSE "Invalid expires_at format", None)
    ELSE IF value.kind = "naive"
    THEN Parsed(200, "", value.wall)
    ELSE IF value.kind = "Z"
    THEN Parsed(200, "", value.wall)
    ELSE Parsed(200, "", value.wall - value.off)

\* datetime.isoformat() of a UTC datetime, or None
isoformat(dt) == IF dt = None THEN NoneTS ELSE TS("offset", dt, 0)

serialize_announcement(oid, doc) ==
    [id |-> IdStr(TRUE, oid),
     message |-> doc.message,
     starts_at |-> isoformat(doc.starts_at),
     expires_at |-> isoformat(doc.expires_at),
     created_at |-> isoformat(doc.created_at),
     updated_at |-> isoformat(doc.updated_at)]

require_signed_in_user_no_lookup(teacher_username) ==
    IF teacher_username \in {NoUsername, ""} THEN 401 ELSE 200

require_signed_in_user(teacher_username) ==
    IF teacher_username \in {NoUsername, ""} THEN 401
    ELSE IF teacher_username \notin teachers_collection THEN 401
    ELSE 200

\* ObjectId(announcement_id): 0 stands for the exception it raises.
ObjectId(announcement_id) == IF announcement_id.hex THEN announcement_id.n ELSE 0

Doc(message, starts_at, expires_at, created_at, updated_at) ==
    [message |-> message, starts_at |-> starts_at, expires_at |-> expires_at,
     created_at |-> created_at, updated_at |-> updated_at]

\* ------------------------------------------------------ the collection
EmptyCollection == [o \in {} |-> Doc(Msg(0, 0), None, 0, 0, 0)]

insert_one(coll, oid, doc) ==
    [o \in DOMAIN coll \cup {oid} |-> IF o = oid THEN doc ELSE coll[o]]

update_one_restamps(coll, oid, message, starts_at, expires_at, updated_at) ==
    IF oid \in DOMAIN coll
    THEN [coll EXCEPT ![oid] =
            Doc(message, starts_at, expires_at, updated_at, updated_at)]
    ELSE coll

\* update_one with $set of the four fields; the collection is returned
\* unchanged when no document matches.
update_one(coll, oid, message, starts_at, expires_at, updated_at) ==
    IF oid \in DOMAIN coll
    THEN [coll EXCEPT ![oid] =
            Doc(message, starts_at, expires_at, coll[oid].created_at, updated_at)]
    ELSE coll

delete_one(coll, oid) == [o \in DOMAIN coll \ {oid} |-> coll[o]]

\* The orders in which a cursor sorted on key may yield the documents S:
\* ascending (dir = 1) or descending (dir = -1), ties in any order.
sort(S, key, dir) ==
    { s \in [1..Cardinality(S) -> S] :
        /\ \A i, j \in 1..Cardinality(S) : i # j => s[i] # s[j]
        /\ \A i, j \in 1..Cardinality(S) : i < j => dir * key[s[i]] <= dir * key[s[j]] }

active_query_gte(doc, t) ==
    /\ doc.expires_at >= t
    /\ \/ doc.starts_at = None
       \/ doc.starts_at <= t

\* The query of get_active_announcements.
active_query(doc, t) ==
    /\ doc.expires_at > t
    /\ \/ doc.starts_at = None
       \/ doc.starts_at <= t

serialize_all(coll, cursor) ==
    [i \in 1..Len(cursor) |-> serialize_announcement(cursor[i], coll[cursor[i]])]

\* ------------------------------------------------------------ responses
Response(op, status, detail, body, wrote) ==
    [op |-> op, status |-> status, detail |-> detail, body |-> body, wrote |-> wrote]
NoResponse == Response("", 0, "", <<>>, FALSE)

Request(op, announcement_id, message, expires_at, starts_at, teacher_username) ==
    [op |-> op, announcement_id |-> announcement_id, message |-> message,
     expires_at |-> expires_at, starts_at |-> starts_at,
     teacher_username |-> teacher_username]
NoRequest == Request("", MalformedId, Msg(0, 0), NoneTS, NoneTS, NoUsername)

Pending(request, oid, wrote) == [request |-> request, oid |-> oid, wrote |-> wrote]
NoPending == Pending(NoRequest, 0, FALSE)

Init ==
    /\ announcements_collection = EmptyCollection
    /\ next_oid = 0
    /\ now = 0
    /\ req = NoRequest
    /\ resp = NoResponse
    /\ pending = NoPending

\* The clock moves forward.
Tick ==
    /\ now < MaxTime
    /\ now' = now + 1
    /\ req' = NoRequest
    /\ resp' = NoResponse
    /\ UNCHANGED <<announcements_collection, next_oid, pending>>

\* Line 79: find(query).sort("expires_at", 1)
active_cursor(coll, t) ==
    sort({o \in DOMAIN coll : active_query(coll[o], t)},
         [o \in DOMAIN coll |-> coll[o].expires_at], 1)

get_active_announcements ==
    /\ req' = Request("get_active", MalformedId, Msg(0, 0), NoneTS, NoneTS, NoUsername)
    /\ \E cursor \in active_cursor(announcements_collection, now) :
          resp' = Response("get_active", 200, "",
                           serialize_all(announcements_collection, cursor), FALSE)
    /\ UNCHANGED <<announcements_collection, next_oid, now, pending>>

list_cursor_ascending(coll) == sort(DOMAIN coll, [o \in DOMAIN coll |-> coll[o].created_at], 1)

\* Line 87: find({}).sort("created_at", -1)
list_cursor(coll) == sort(DOMAIN coll, [o \in DOMAIN coll |-> coll[o].created_at], -1)

list_announcements(teacher_username) ==
    /\ req' = Request("list", MalformedId, Msg(0, 0), NoneTS, NoneTS, teacher_username)
    /\ IF require_signed_in_user(teacher_username) # 200
       THEN resp' = Response("list", 401, "Authentication required", <<>>, FALSE)
       ELSE \E cursor \in list_cursor(announcements_collection) :
              resp' = Response("list", 200, "",
                               serialize_all(announcements_collection, cursor), FALSE)
    /\ UNCHANGED <<announcements_collection, next_oid, now, pending>>

create_message_error_at_limit(sanitized_message) ==
    IF len(sanitized_message) = 0 THEN "Message is required"
    ELSE IF len(sanitized_message) >= MAX_MESSAGE_LENGTH THEN "Message is too long"
    ELSE ""

\* Lines 102-106: the 400 a message raises, "" when it raises none.
create_message_error(sanitized_message) ==
    IF len(sanitized_message) = 0 THEN "Message is required"
    ELSE IF len(sanitized_message) > MAX_MESSAGE_LENGTH THEN "Message is too long"
    ELSE ""

create_window_error_strict(parsed_starts_at, parsed_expires_at) ==
    parsed_starts_at # None /\ parsed_starts_at > parsed_expires_at

\* Line 111
create_window_error(parsed_starts_at, parsed_expires_at) ==
    parsed_starts_at # None /\ parsed_starts_at >= parsed_expires_at

Checked(status, detail, doc) == [status |-> status, detail |-> detail, doc |-> doc]
NoDoc == Doc(Msg(0, 0), None, 0, 0, 0)

\* Lines 100-121: the checks of create_announcement and the payload it builds.
create_payload(message, expires_at, starts_at, teacher_username) ==
    LET sanitized_message == strip(message)
        parsed_starts_at == to_utc_datetime(starts_at, "starts_at", FALSE)
        parsed_expires_at == to_utc_datetime(expires_at, "expires_at", TRUE)
    IN  IF require_signed_in_user(teacher_username) # 200
        THEN Checked(401, "Authentication required", NoDoc)
        ELSE IF create_message_error(sanitized_message) # ""
        THEN Checked(400, create_message_error(sanitized_message), NoDoc)
        ELSE IF parsed_starts_at.status # 200
        THEN Checked(400, parsed_starts_at.detail, NoDoc)
        ELSE IF parsed_expires_at.status # 200
        THEN Checked(400, parsed_expires_at.detail, NoDoc)
        ELSE IF create_window_error(parsed_starts_at.dt, parsed_expires_at.dt)
        THEN Checked(400, "Expiration must be after start date", NoDoc)
        ELSE Checked(200, "",
                     Doc(sanitized_message, parsed_starts_at.dt, parsed_expires_at.dt,
                         now, now))

\* Lines 124-128: the re-read of the created document.
create_reread(coll, oid, wrote) ==
    IF oid \in DOMAIN coll
    THEN Response("create", 200, "", <<serialize_announcement(oid, coll[oid])>>, wrote)
    ELSE Response("create", 500, "Failed to create announcement", <<>>, wrote)

create_announcement(message, expires_at, starts_at, teacher_username) ==
    LET checked == create_payload(message, expires_at, starts_at, teacher_username)
        oid == next_oid + 1
    IN  /\ req' = Request("create", MalformedId, message, expires_at, starts_at,
                          teacher_username)
        /\ IF checked.status # 200
           THEN /\ resp' = Response("create", checked.status, checked.detail, <<>>, FALSE)
                /\ UNCHANGED <<announcements_collection, next_oid>>
           ELSE /\ next_oid < MaxIds
                /\ announcements_collection' =
                      insert_one(announcements_collection, oid, checked.doc)
                /\ next_oid' = oid
                /\ resp' = create_reread(announcements_collection', oid, TRUE)
        /\ UNCHANGED <<now, pending>>

\* Lines 142-146
update_message_error(sanitized_message) ==
    IF len(sanitized_message) = 0 THEN "Message is required"
    ELSE IF len(sanitized_message) > MAX_MESSAGE_LENGTH THEN "Message is too long"
    ELSE ""

\* Line 151
update_window_error(parsed_starts_at, parsed_expires_at) ==
    parsed_starts_at # None /\ parsed_starts_at >= parsed_expires_at

\* Lines 140-158: the checks of update_announcement; doc holds the values of
\* its $set (created_at is not among them).
update_payload(announcement_id, message, expires_at, starts_at, teacher_username) ==
    LET sanitized_message == strip(message)
        parsed_starts_at == to_utc_datetime(starts_at, "starts_at", FALSE)
        parsed_expires_at == to_utc_datetime(expires_at, "expires_at", TRUE)
    IN  IF require_signed_in_user(teacher_username) # 200
        THEN Checked(401, "Authentication required", NoDoc)
        ELSE IF update_message_error(sanitized_message) # ""
        THEN Checked(400, update_message_error(sanitized_message), NoDoc)
        ELSE IF parsed_starts_at.status # 200
        THEN Checked(400, parsed_starts_at.detail, NoDoc)
        ELSE IF parsed_expires_at.status # 200
        THEN Checked(400, parsed_expires_at.detail, NoDoc)
        ELSE IF update_window_error(parsed_starts_at.dt, parsed_expires_at.dt)
        THEN Checked(400, "Expiration must be after start date", NoDoc)
        ELSE IF ObjectId(announcement_id) = 0
        THEN Checked(400, "Invalid announcement id", NoDoc)
        ELSE Checked(200, "",
                     Doc(sanitized_message, parsed_starts_at.dt, parsed_expires_at.dt,
                         0, now))

\* Lines 160-170: the collection after update_one.
update_write(coll, oid, doc) ==
    update_one(coll, oid, doc.message, doc.starts_at, doc.expires_at, doc.updated_at)

\* Line 172: result.matched_count
matched_count(coll, oid) == IF oid \in DOMAIN coll THEN 1 ELSE 0

\* Lines 175-179: the re-read of the updated document.
update_reread(coll, oid, wrote) ==
    IF oid \in DOMAIN coll
    THEN Response("update", 200, "", <<serialize_announcement(oid, coll[oid])>>, wrote)
    ELSE Response("update", 500, "Failed to update announcement", <<>>, wrote)

update_announcement(announcement_id, message, expires_at, starts_at, teacher_username) ==
    LET checked == update_payload(announcement_id, message, expires_at, starts_at,
                                  teacher_username)
        object_id == ObjectId(announcement_id)
    IN  /\ req' = Request("update", announcement_id, message, expires_at, starts_at,
                          teacher_username)
        /\ IF checked.status # 200
           THEN /\ resp' = Response("update", checked.status, checked.detail, <<>>, FALSE)
                /\ UNCHANGED announcements_collection
           ELSE /\ announcements_collection' =
                      update_write(announcements_collection, object_id, checked.doc)
                /\ IF matched_count(announcements_collection, object_id) = 0
                   THEN resp' = Response("update", 404, "Announcement not found", <<>>,
                                         announcements_collection' # announcements_collection)
                   ELSE resp' = update_reread(announcements_collection', object_id,
                                              announcements_collection' # announcements_collection)
        /\ UNCHANGED <<next_oid, now, pending>>

deleted_count_acknowledged(coll, oid) == 1

\* Line 197: result.deleted_count
deleted_count(coll, oid) == IF oid \in DOMAIN coll THEN 1 ELSE 0

delete_announcement(announcement_id, teacher_username) ==
    LET object_id == ObjectId(announcement_id)
    IN  /\ req' = Request("delete", announcement_id, Msg(0, 0), NoneTS, NoneTS,
                          teacher_username)
        /\ IF require_signed_in_user(teacher_username) # 200
           THEN /\ resp' = Response("delete", 401, "Authentication required", <<>>, FALSE)
                /\ UNCHANGED announcements_collection
           ELSE IF object_id = 0
           THEN /\ resp' = Response("delete", 400, "Invalid announcement id", <<>>, FALSE)
                /\ UNCHANGED announcements_collection
           ELSE /\ announcements_collection' = delete_one(announcements_collection, object_id)
                /\ IF deleted_count(announcements_collection, object_id) = 0
                   THEN resp' = Response("delete", 404, "Announcement not found", <<>>,
                                         announcements_collection' # announcements_collection)
                   ELSE resp' = Response("delete", 200, "Announcement deleted", <<>>,
                                         announcements_collection' # announcements_collection)
        /\ UNCHANGED <<next_oid, now, pending>>

\* One request, handled from start to end, with its arguments drawn from
\* the given sets.
Calls(U, M, S, E, I) ==
    \/ get_active_announcements
    \/ \E u \in U : list_announcements(u)
    \/ \E u \in U, m \in M, e \in E, s \in S : create_announcement(m, e, s, u)
    \/ \E i \in I, u \in U, m \in M, e \in E, s \in S : update_announcement(i, m, e, s, u)
    \/ \E i \in I, u \in U : delete_announcement(i, u)

\* update_announcement as far as its update_one, when that matches a document:
\* the call is then between its write and its re-read.
update_write_step(announcement_id, message, expires_at, starts_at, teacher_username) ==
    LET checked == update_payload(announcement_id, message, expires_at, starts_at,
                                  teacher_username)
        object_id == ObjectId(announcement_id)
    IN  /\ pending = NoPending
        /\ checked.status = 200
        /\ matched_count(announcements_collection, object_id) # 0
        /\ announcements_collection' =
              update_write(announcements_collection, object_id, checked.doc)
        /\ pending' = Pending(Request("update", announcement_id, message, expires_at,
                                      starts_at, teacher_username),
                              object_id,
                              announcements_collection' # announcements_collection)
        /\ UNCHANGED <<next_oid, now, req, resp>>

\* The rest of that call: find_one and the return or the 500.
update_reread_step ==
    /\ pending.request.op = "update"
    /\ req' = pending.request
    /\ resp' = update_reread(announcements_collection, pending.oid, pending.wrote)
    /\ pending' = NoPending
    /\ UNCHANGED <<announcements_collection, next_oid, now>>

\* create_announcement as far as its insert_one.
create_insert_step(message, expires_at, starts_at, teacher_username) ==
    LET checked == create_payload(message, expires_at, starts_at, teacher_username)
        oid == next_oid + 1
    IN  /\ pending = NoPending
        /\ checked.status = 200
        /\ next_oid < MaxIds
        /\ announcements_collection' =
              insert_one(announcements_collection, oid, checked.doc)
        /\ next_oid' = oid
        /\ pending' = Pending(Request("create", MalformedId, message, expires_at,
                                      starts_at, teacher_username), oid, TRUE)
        /\ UNCHANGED <<now, req, resp>>

\* The rest of that call.
create_reread_step ==
    /\ pending.request.op = "create"
    /\ req' = pending.request
    /\ resp' = create_reread(announcements_collection, pending.oid, pending.wrote)
    /\ pending' = NoPending
    /\ UNCHANGED <<announcements_collection, next_oid, now>>

\* ------------------------------------------------------- specifications
\* Requests with every shape of time window, all arriving at one instant.
Next ==
    Calls({"alice", "mallory"}, {Msg(1, 1), Msg(0, MAX_MESSAGE_LENGTH + 1)},
          {NoneTS, Z1, Naive2}, {Z1, Naive2, Offset1}, IdStrings)

Spec == Init /\ [][Next]_vars

\* Every kind of caller, each with valid and invalid arguments.
AuthNext ==
    Calls(Usernames, {Msg(1, 1), Msg(0, MAX_MESSAGE_LENGTH + 1)},
          {NoneTS, Naive2}, {Z1, BadTS}, IdStrings)

AuthSpec == Init /\ [][AuthNext]_vars

\* Every shape of message.
MessageNext ==
    Calls({"alice", "mallory"}, Messages, {NoneTS}, {Z1, EmptyTS}, IdStrings)

MessageSpec == Init /\ [][MessageNext]_vars

\* Requests spread over time.
TimedNext ==
    \/ Tick
    \/ Calls({"alice", "mallory"}, {Msg(1, 1), Msg(0, MAX_MESSAGE_LENGTH)},
             {NoneTS, Offset1}, {Z1, Naive2}, IdStrings)

TimedSpec == Init /\ [][TimedNext]_vars

\* Requests of a signed-in caller that overlap: while one update or create is
\* between its write and its re-read, other requests are handled.
ConcNext ==
    \/ Calls({"alice"}, {Msg(1, 1), Msg(0, MAX_MESSAGE_LENGTH)}, {NoneTS},
             {Z1, Naive2}, IdStrings)
    \/ \E i \in IdStrings, m \in {Msg(1, 1), Msg(0, MAX_MESSAGE_LENGTH)},
          e \in {Z1, Naive2} :
          update_write_step(i, m, e, NoneTS, "alice")
    \/ update_reread_step
    \/ \E m \in {Msg(1, 1), Msg(0, MAX_MESSAGE_LENGTH)}, e \in {Z1, Naive2} :
          create_insert_step(m, e, NoneTS, "alice")
    \/ create_reread_step

ConcSpec == Init /\ [][ConcNext]_vars

\* A signed-in caller's requests spread over time, which keeps passing.
FairNext ==
    \/ Tick
    \/ Calls({"alice"}, {Msg(1, 1)}, {NoneTS, Offset1}, {Z1, Naive2}, IdStrings)

FairSpec == Init /\ [][FairNext]_vars /\ WF_vars(Tick)

\* ------------------------------------------------ what the claims refer to
coll == announcements_collection

\* The instant a timestamp string denotes (one without an offset is read as
\* UTC); None for a missing, empty or unreadable one.
Denotes(ts) ==
    CASE ts.kind = "Z" -> ts.wall
      [] ts.kind = "naive" -> ts.wall
      [] ts.kind = "offset" -> ts.wall - ts.off
      [] OTHER -> None

Omitted(ts) == ts.kind \in {"none", "empty"}
SignedIn(r) == r.teacher_username \in teachers_collection
WellFormed(r) == r.announcement_id.hex
Oid(r) == r.announcement_id.n
TrimmedLength(r) == r.message.len
ValidMessage(r) == TrimmedLength(r) >= 1 /\ TrimmedLength(r) <= 500
ValidInstants(r) ==
    /\ Denotes(r.expires_at) # None
    /\ Omitted(r.starts_at) \/ Denotes(r.starts_at) # None
\* starts_at is present and starts_at >= expires_at
ClosedWindow(r) ==
    /\ Denotes(r.starts_at) # None
    /\ Denotes(r.expires_at) # None
    /\ Denotes(r.starts_at) >= Denotes(r.expires_at)
BodyIds(r) == { r.body[i].id.n : i \in 1..Len(r.body) }

\* ---------------------------------------------------------------- C1
StoredWindowsOpen ==
    \A o \in DOMAIN coll :
        coll[o].starts_at # None => coll[o].expires_at > coll[o].starts_at

ClosedWindowRejected ==
    (req'.op \in {"create", "update"} /\ ClosedWindow(req'))
        => /\ resp'.status = IF SignedIn(req') THEN 400 ELSE 401
           /\ UNCHANGED <<announcements_collection, next_oid>>

\* C1: every stored announcement whose starts_at is set has expires_at
\* strictly after it, and a create or update whose starts_at is present and
\* not before its expires_at is rejected (400 for a signed-in caller, 401
\* otherwise) and writes nothing.
C1_WindowInvariant == []StoredWindowsOpen /\ [][ClosedWindowRejected]_vars

C1_Witness ==
    /\ req.op = "update" /\ SignedIn(req) /\ ClosedWindow(req)
    /\ Denotes(req.starts_at) = Denotes(req.expires_at)
    /\ resp.status = 400
    /\ \E o \in DOMAIN coll : coll[o].starts_at # None

\* ---------------------------------------------------------------- C6
DeleteContract ==
    (req'.op = "delete" /\ SignedIn(req'))
        => IF ~WellFormed(req')
           THEN resp'.status = 400 /\ UNCHANGED announcements_collection
           ELSE IF Oid(req') \notin DOMAIN coll
           THEN resp'.status = 404 /\ UNCHANGED announcements_collection
           ELSE /\ resp'.status = 200
                /\ resp'.detail = "Announcement deleted"
                /\ DOMAIN coll' = DOMAIN coll \ {Oid(req')}
                /\ \A o \in DOMAIN coll' : coll'[o] = coll[o]

\* An id that was handed out and is no longer stored never comes back.
DeletedStaysDeleted ==
    \A o \in 1..next_oid : o \notin DOMAIN coll => o \notin DOMAIN coll'

UpdateOfMissingIs404 ==
    (/\ req'.op = "update" /\ SignedIn(req') /\ ValidMessage(req')
     /\ ValidInstants(req') /\ ~ClosedWindow(req')
     /\ WellFormed(req') /\ Oid(req') \notin DOMAIN coll)
        => resp'.status = 404 /\ UNCHANGED announcements_collection

ListedAreStored ==
    resp.op \in {"list", "get_active"} => BodyIds(resp) \subseteq DOMAIN coll

\* C6: for a signed-in caller delete_announcement answers 400 to a malformed
\* id and 404 to a well-formed id that is not stored, changing nothing;
\* otherwise it answers with the confirmation and removes exactly that
\* document, which then is in no listing, and a later delete or update of
\* that id answers 404.
C6_Delete ==
    /\ [][DeleteContract]_vars
    /\ [][DeletedStaysDeleted]_vars
    /\ [][UpdateOfMissingIs404]_vars
    /\ []ListedAreStored

\* A second delete of an id that was stored and deleted.
C6_Witness ==
    /\ req.op = "delete" /\ SignedIn(req) /\ WellFormed(req)
    /\ Oid(req) <= next_oid
    /\ resp.status = 404
    /\ DOMAIN coll # {}

\* ---------------------------------------------------------------- C2
Unauthenticated401 ==
    (req'.op \in {"list", "create", "update", "delete"} /\ ~SignedIn(req'))
        => /\ resp'.status = 401
           /\ UNCHANGED <<announcements_collection, next_oid>>

\* C2: list, create, update and delete answer 401 to a caller whose
\* teacher_username is missing, empty or not in the teachers collection,
\* whatever the other arguments are, and leave the collection unchanged.
C2_Unauthenticated == [][Unauthenticated401]_vars

\* An unknown caller's update with a message that is too long, a closed
\* time window and a malformed id.
C2_Witness ==
    /\ req.op = "update" /\ req.teacher_username = "mallory"
    /\ ~ValidMessage(req) /\ ClosedWindow(req) /\ ~WellFormed(req)
    /\ resp.status = 401
    /\ DOMAIN coll # {}

\* ---------------------------------------------------------------- C7
StoredMessagesTrimmed ==
    \A o \in DOMAIN coll :
        /\ coll[o].message.pad = 0
        /\ coll[o].message.len >= 1
        /\ coll[o].message.len <= 500

Trimmed(r) == Msg(0, r.message.len)

MessageContract ==
    (req'.op \in {"create", "update"} /\ SignedIn(req'))
        => IF ~ValidMessage(req')
           THEN resp'.status = 400 /\ UNCHANGED <<announcements_collection, next_oid>>
           ELSE (ValidInstants(req') /\ ~ClosedWindow(req'))
                => IF req'.op = "create"
                   THEN /\ resp'.status = 200
                        /\ DOMAIN coll' = DOMAIN coll \cup {next_oid'}
                        /\ coll'[next_oid'].message = Trimmed(req')
                   ELSE (WellFormed(req') /\ Oid(req') \in DOMAIN coll)
                        => /\ resp'.status = 200
                           /\ coll'[Oid(req')].message = Trimmed(req')

\* C7: every stored message is the trimmed request message, 1 to 500
\* characters long; create and update (by a signed-in caller) accept a message
\* whose trimmed length is exactly 500 and answer 400, writing nothing, to
\* one that is longer, empty or whitespace only.
C7_Message == []StoredMessagesTrimmed /\ [][MessageContract]_vars

\* A padded message of 500 characters replaced a shorter one.
C7_Witness ==
    /\ req.op = "update" /\ req.message = Msg(1, 500)
    /\ resp.status = 200
    /\ coll[Oid(req)].message = Msg(0, 500)

\* ---------------------------------------------------------------- C3
\* What a returned record says of the stored document o.
Faithful(item, o) ==
    /\ item.id = IdStr(TRUE, o)
    /\ item.message = coll[o].message
    /\ Denotes(item.starts_at) = coll[o].starts_at
    /\ Denotes(item.expires_at) = coll[o].expires_at
    /\ Denotes(item.created_at) = coll[o].created_at
    /\ Denotes(item.updated_at) = coll[o].updated_at

ActiveAt(t) ==
    { o \in DOMAIN coll :
        /\ coll[o].expires_at > t
        /\ coll[o].starts_at = None \/ coll[o].starts_at <= t }

ActiveListExact ==
    resp.op = "get_active"
        => /\ resp.status = 200
           /\ BodyIds(resp) = ActiveAt(now)
           /\ Len(resp.body) = Cardinality(ActiveAt(now))
           /\ \A i \in 1..Len(resp.body) : Faithful(resp.body[i], resp.body[i].id.n)
           /\ \A i, j \in 1..Len(resp.body) :
                 i < j => Denotes(resp.body[i].expires_at) <= Denotes(resp.body[j].expires_at)

ActiveListReadsOnly ==
    req'.op = "get_active" => UNCHANGED <<announcements_collection, next_oid>>

\* C3: get_active_announcements returns exactly the stored announcements with
\* expires_at > now and starts_at absent or <= now, each once, in ascending
\* order of expires_at, needs no principal and changes nothing.
C3_ActiveList == []ActiveListExact /\ [][ActiveListReadsOnly]_vars

\* Two active announcements come back second-created first, because it
\* expires first.
C3_WitnessSorted ==
    /\ resp.op = "get_active" /\ Len(resp.body) = 2
    /\ resp.body[1].id.n = 2
    /\ coll[2].expires_at < coll[1].expires_at

\* One announcement is left out because it starts later, the other is
\* returned, having no starts_at.
C3_Witness ==
    /\ resp.op = "get_active" /\ Len(resp.body) = 1
    /\ \E o \in DOMAIN coll : coll[o].starts_at # None /\ coll[o].starts_at > now
    /\ coll[resp.body[1].id.n].starts_at = None

\* ---------------------------------------------------------------- C9
ListExact ==
    (resp.op = "list" /\ SignedIn(req))
        => /\ resp.status = 200
           /\ BodyIds(resp) = DOMAIN coll
           /\ Len(resp.body) = Cardinality(DOMAIN coll)
           /\ \A i \in 1..Len(resp.body) : Faithful(resp.body[i], resp.body[i].id.n)
           /\ \A i, j \in 1..Len(resp.body) :
                 i < j => Denotes(resp.body[i].created_at) >= Denotes(resp.body[j].created_at)
           /\ ActiveAt(now) \subseteq BodyIds(resp)

ListReadsOnly ==
    req'.op = "list" => UNCHANGED <<announcements_collection, next_oid>>

\* C9: for a signed-in caller list_announcements returns every stored
\* announcement once, expired and not yet started ones included, in
\* descending order of created_at, and changes nothing; so it holds every
\* announcement that is active at that instant.
C9_List == []ListExact /\ [][ListReadsOnly]_vars

\* The list holds an expired announcement and, before it, one created later.
C9_Witness ==
    /\ resp.op = "list" /\ resp.status = 200 /\ Len(resp.body) = 2
    /\ resp.body[1].id.n = 2
    /\ coll[2].created_at > coll[1].created_at
    /\ coll[1].expires_at <= now

\* The list holds an announcement that has not started.
C9_WitnessNotStarted ==
    /\ resp.op = "list" /\ resp.status = 200
    /\ \E o \in BodyIds(resp) : coll[o].starts_at # None /\ coll[o].starts_at > now

\* ---------------------------------------------------------------- C8
CreateContract ==
    (/\ req'.op = "create" /\ SignedIn(req') /\ ValidMessage(req')
     /\ ValidInstants(req') /\ ~ClosedWindow(req'))
        => /\ resp'.status = 200
           /\ next_oid' \notin 1..next_oid
           /\ DOMAIN coll' = DOMAIN coll \cup {next_oid'}
           /\ \A o \in DOMAIN coll : coll'[o] = coll[o]
           /\ coll'[next_oid'].created_at = now
           /\ coll'[next_oid'].updated_at = now
           /\ Len(resp'.body) = 1
           /\ resp'.body[1].id = IdStr(TRUE, next_oid')
           /\ Denotes(resp'.body[1].starts_at) = Denotes(req'.starts_at)
           /\ Denotes(resp'.body[1].expires_at) = Denotes(req'.expires_at)
           /\ Denotes(resp'.body[1].created_at) = now
           /\ Denotes(resp'.body[1].updated_at) = now
           /\ Omitted(req'.starts_at) => resp'.body[1].starts_at = NoneTS

\* C8: for a signed-in caller, a valid message and valid instants with
\* starts_at < expires_at or starts_at omitted, create_announcement succeeds,
\* adds exactly one document under a fresh id with created_at = updated_at =
\* now, and returns it with starts_at and expires_at denoting the instants of
\* the request (starts_at null when omitted).
C8_Create == [][CreateContract]_vars

\* A second announcement, created after the clock moved, whose starts_at was
\* written with an offset.
C8_Witness ==
    /\ req.op = "create" /\ resp.status = 200
    /\ req.starts_at = Offset1 /\ req.expires_at = Naive2
    /\ resp.body[1].starts_at = TS("offset", 1, 0)
    /\ resp.body[1].id.n = 2
    /\ now > 0

\* ---------------------------------------------------------------- C4
UpdateContract ==
    (req'.op = "update" /\ resp'.status = 200)
        => /\ Oid(req') \in DOMAIN coll
           /\ DOMAIN coll' = DOMAIN coll
           /\ coll'[Oid(req')] =
                 Doc(Trimmed(req'), Denotes(req'.starts_at), Denotes(req'.expires_at),
                     coll[Oid(req')].created_at, now)
           /\ \A o \in DOMAIN coll \ {Oid(req')} : coll'[o] = coll[o]
           /\ next_oid' = next_oid

CreatedAtKept ==
    \A o \in DOMAIN coll \cap DOMAIN coll' : coll'[o].created_at = coll[o].created_at

\* C4: a successful update_announcement replaces the document's message,
\* starts_at (absent when omitted) and expires_at by the validated request
\* values and sets updated_at to now; its id and created_at, every other
\* document and the number of documents stay as they were, so created_at
\* never changes after the create.
C4_Update == [][UpdateContract]_vars /\ [][CreatedAtKept]_vars

\* An announcement updated after its creation, its starts_at removed, while
\* another one is stored.
C4_Witness ==
    /\ req.op = "update" /\ resp.status = 200
    /\ Omitted(req.starts_at)
    /\ coll[Oid(req)].updated_at > coll[Oid(req)].created_at
    /\ coll[Oid(req)].message = Msg(0, 500)
    /\ Cardinality(DOMAIN coll) = 2

\* ---------------------------------------------------------------- C10
\* get_active_announcements, called now, would return document o.
ReturnedNow(o) ==
    \E cursor \in active_cursor(coll, now) : \E i \in 1..Len(cursor) : cursor[i] = o

ReturnedWithinWindow ==
    \A o \in DOMAIN coll :
        ReturnedNow(o) <=> /\ coll[o].starts_at = None \/ coll[o].starts_at <= now
                           /\ now < coll[o].expires_at

ReturnedAsAnswered ==
    resp.op = "get_active" => \A o \in DOMAIN coll : o \in BodyIds(resp) <=> ReturnedNow(o)

ClockForward == now' >= now

\* A document left as it is, once expired, is not returned after the step.
ExpiredStaysOut ==
    \A o \in DOMAIN coll \cap DOMAIN coll' :
        (coll'[o] = coll[o] /\ now >= coll[o].expires_at) => ~ReturnedNow(o)'

\* A document left as it is, once started, is returned until it expires.
StartedStaysIn ==
    \A o \in DOMAIN coll \cap DOMAIN coll' :
        (coll'[o] = coll[o] /\ ReturnedNow(o) /\ now' < coll[o].expires_at)
            => ReturnedNow(o)'

ExpiresEventually ==
    \A o \in 1..MaxIds : \A e \in 0..MaxTime :
        (o \in DOMAIN coll /\ coll[o].expires_at = e)
            ~> (o \notin DOMAIN coll \/ coll[o].expires_at # e \/ now >= e)

\* C10: with the clock moving forward, an announcement that is not updated or
\* deleted is returned by get_active_announcements exactly while
\* starts_at <= now < expires_at (from its creation on when starts_at is
\* absent): never before, at every call within, never again once expired;
\* and the clock reaches its expires_at.
C10_ActivePeriod ==
    /\ []ReturnedWithinWindow
    /\ []ReturnedAsAnswered
    /\ [][ClockForward]_vars
    /\ [][ExpiredStaysOut]_vars
    /\ [][StartedStaysIn]_vars
    /\ ExpiresEventually

\* An announcement created before its starts_at, never updated, has expired
\* and is not in the answer.
C10_Witness ==
    /\ resp.op = "get_active"
    /\ \E o \in DOMAIN coll :
          /\ coll[o].starts_at # None
          /\ coll[o].created_at < coll[o].starts_at
          /\ coll[o].updated_at = coll[o].created_at
          /\ now >= coll[o].expires_at
          /\ o \notin BodyIds(resp)

\* ---------------------------------------------------------------- C5
FailedUpdateWroteNothing ==
    (req.op = "update" /\ resp.status \in {400, 401, 404, 500}) => ~resp.wrote

Replaced(r) ==
    /\ DOMAIN coll' = DOMAIN coll
    /\ Oid(r) \in DOMAIN coll
    /\ coll'[Oid(r)].message = Trimmed(r)
    /\ coll'[Oid(r)].starts_at = Denotes(r.starts_at)
    /\ coll'[Oid(r)].expires_at = Denotes(r.expires_at)

\* The step that writes: the first step of an overlapped update that will
\* find its document, or a whole update that succeeds.
ReplacesTogether ==
    /\ (pending = NoPending /\ pending'.request.op = "update")
          => Replaced(pending'.request)
    /\ (req'.op = "update" /\ resp'.status = 200 /\ pending' = pending)
          => Replaced(req')

\* C5: update_announcement is replace-all-or-fail, also when other requests
\* run between its update_one and its find_one: a call that fails (400, 401,
\* 404 or 500) has changed no document and inserted none, and one that
\* succeeds has replaced message, starts_at and expires_at together.
C5_ReplaceAllOrFail == []FailedUpdateWroteNothing /\ [][ReplacesTogether]_vars

\* What is left of it: an update that answers 400, 401 or 404 has changed
\* nothing.
C5_RejectedUpdateWroteNothing ==
    (req.op = "update" /\ resp.status \in {400, 401, 404}) => ~resp.wrote
====
